---- MODULE Spec2Model ----
(***************************************************************************)
(* Model of usr/xray/tools/conv2kcg.py: the XRay report parser             *)
(* (parseReport / parseFrame), the call trees it builds and the callgrind  *)
(* writer (dumpCallTree).  One step of the model is one iteration of the   *)
(* `for line in file` loop, or the end of input followed by the writer.   *)
(* A second specification, SpecGdb, models the context commands of         *)
(* usr/gdb/hermit/tasks.py; one step is one gdb command.                   *)
(***************************************************************************)
EXTENDS Integers, Sequences, FiniteSets, TLC

VARIABLES
    state,            \* parseReport: local `state` (States enum)
    current_frame,    \* parseReport: local `current_frame`
    pc,               \* "parsing", "crashed" (uncaught exception) or "done"
    exc,              \* the uncaught exception, "none" while there is none
    frames,           \* ParsingState.frames: label -> Frame
    frame_keys,       \* ParsingState.frames: the keys in insertion order
    heap,             \* every CallTree made by CallTree.call, in creation order
    callers,          \* ParsingState.callers: depth -> node (index into heap)
    call_count,       \* ParsingState.call_count: address -> name, count
    last_call_depth,  \* ParsingState.last_call_depth
    files,            \* the files opened for writing, in order: name, lines
    blocks,           \* history: labels for which ParseFrame was entered
    block_start,      \* history: Len(heap) when ParseFrame was last entered
    lines_left,       \* the lines of the report not read yet, OpenEnded when
                      \* the length of the report is left open
    regs,             \* gdb: the registers of each inferior thread
    selected,         \* gdb: the selected thread
    original_state,   \* tasks.py: global original_state, thread.num -> registers
    before_switch,    \* history: regs just before the last hermit-switch-context
    switched,         \* history: hermit-switch-context invocations since the
                      \* last hermit-restore-context: 0, 1 or 2 (two or more)
    test_runner,      \* hermit_test_runner.py: the class of `test_runner`
    test_name,        \* hermit_test_runner.py: `test_name`
    at,               \* hermit_test_runner.py: the position in the script
    rc,               \* run_test: the return code, <<>> for None
    stdout,           \* run_test: the captured output, line by line
    timed_out,        \* run_test: `timed_out`
    test_ok,          \* the result of validate_test_success
    exit_status       \* the exit status of the script, Running before it exits

pvars == <<state, current_frame, pc, exc, frames, frame_keys, heap, callers,
           call_count, last_call_depth, files, blocks, block_start, lines_left>>

gvars == <<regs, selected, original_state, before_switch, switched>>

tvars == <<test_runner, test_name, at, rc, stdout, timed_out, test_ok, exit_status>>

vars == <<state, current_frame, pc, exc, frames, frame_keys, heap, callers, call_count,
          last_call_depth, files, blocks, block_start, lines_left,
          regs, selected, original_state, before_switch, switched,
          test_runner, test_name, at, rc, stdout, timed_out, test_ok, exit_status>>

----------------------------------------------------------------------------
(* Bounds of the model *)

MaxNodes == 2
MaxDepth == 2
MaxLines == 6
MaxOut == 2

(* The inputs the report is drawn from *)

Labels == {"F", "G"}
TotalTicks == {5, 20}
CaptureSizes == {7}
Funcs == { [name |-> "A", addr |-> "0x1A", ticks |-> 10],
           [name |-> "B", addr |-> "0x2B", ticks |-> 5] }
ReportName == "report"

(* The inferior threads (gdb numbers them from 1, one per core) and the    *)
(* values a thread's register set is drawn from                            *)
Threads == {1, 2}
RegValues == {"0x10", "0x20", "0x30"}

None == "<None>"
Empty == [x \in {} |-> 0]

(* A line of the report.  `kind` is the shape of its text; the other       *)
(* fields are the groups the regular expressions would capture, with the   *)
(* \d+ groups already read as integers and `indent` the width of the       *)
(* whitespace captured by the `depth` group.                               *)
Line(kind, label, ticks, size, addr, name, indent) ==
    [kind |-> kind, label |-> label, ticks |-> ticks, size |-> size,
     addr |-> addr, name |-> name, indent |-> indent]

HeaderStartLines == { Line("HeaderStart", "", 0, 0, "", "", 0) }
HeaderFrameLines == { Line("HeaderFrame", l, t, s, "", "", 0) :
                        l \in Labels, t \in TotalTicks, s \in CaptureSizes }
OriginLines      == { Line("Origin", "", 0, 0, "", "", 0) }
FrameStartLines  == { Line("FrameStart", l, 0, 0, "", "", 0) : l \in Labels }
SampleLines      == { Line("Sample", "", f.ticks, 0, f.addr, f.name, d) :
                        f \in Funcs, d \in 0..MaxDepth }
FrameEndLines    == { Line("FrameEnd", "", 0, 0, "", "", 0) }
OtherLines       == { Line("Other", "", 0, 0, "", "", 0) }

Lines == HeaderStartLines \cup HeaderFrameLines \cup OriginLines \cup
         FrameStartLines \cup SampleLines \cup FrameEndLines \cup OtherLines

----------------------------------------------------------------------------
(* Line classifier *)

headerStarted(line) == line.kind = "HeaderStart"

headerFrameLineMatch(line) == line.kind = "HeaderFrame"

originMarker(line) == line.kind = "Origin"

frameStarted(line) == IF line.kind = "FrameStart" THEN line.label ELSE None

frameCallLineMatch(line) == line.kind = "Sample"

(* frameEnded with the end marker looked for in any line that is not a    *)
(* call sample                                                             *)
frameEnded_anyText(line) == line.kind \in {"FrameEnd", "Other"}

frameEnded(line) == line.kind = "FrameEnd"

----------------------------------------------------------------------------
(* CallTree and Frame *)

CallTree(funcName, funcAddr, totalTicks) ==
    [name |-> funcName, addr |-> funcAddr, ticks |-> totalTicks, calls |-> <<>>]

(* CallTree.call inserting the callee in front *)
appendCall_front(calls, callee) == <<callee>> \o calls

(* CallTree.call appending the callee twice *)
appendCall_twice(calls, callee) == Append(Append(calls, callee), callee)

appendCall(calls, callee) == Append(calls, callee)

(* Frame with the root created from the capture size *)
Frame_rootFromSize(name, totalTicks, captureSize) ==
    [name |-> name, totalTicks |-> totalTicks, captureSize |-> captureSize,
     callTree |-> [name |-> "_root_", addr |-> "0x0", ticks |-> captureSize,
                   calls |-> <<>>]]

Frame(name, totalTicks, captureSize) ==
    [name |-> name, totalTicks |-> totalTicks, captureSize |-> captureSize,
     callTree |-> CallTree("_root_", "0x0", totalTicks)]

(* parseHeader with the ticks and size groups exchanged *)
parseHeader_swapped(line) == Frame(line.label, line.size, line.ticks)

parseHeader(line) == Frame(line.label, line.ticks, line.size)

----------------------------------------------------------------------------
(* parseFrame *)

lineDepth(line) == line.indent

countCall(cc, address, funcName) ==
    [a \in DOMAIN cc \cup {address} |->
        IF a \in DOMAIN cc
        THEN IF a = address
             THEN [name |-> cc[a].name, count |-> cc[a].count + 1]
             ELSE cc[a]
        ELSE [name |-> funcName, count |-> 1]]

(* Samples of depth one attached to the frame's root as well *)
isRootCaller_upToOne(depth) == depth <= 1

isRootCaller(depth) == depth = 0

callerDepth(depth) == depth - 1

recordCaller(cs, depth, callee) ==
    [d \in DOMAIN cs \cup {depth} |-> IF d = depth THEN callee ELSE cs[d]]

(* The node made by CallTree.call; `frame` and `depth` are history fields: *)
(* the frame that was current and the indentation of the line.            *)
Callee(line, frameName) ==
    [name |-> line.name, addr |-> line.addr, ticks |-> line.ticks,
     calls |-> <<>>, frame |-> frameName, depth |-> lineDepth(line)]

Raise(e) ==
    /\ pc' = "crashed"
    /\ exc' = e

parseFrame(frameName, line) ==
    IF frameCallLineMatch(line)
    THEN /\ call_count' = countCall(call_count, line.addr, line.name)
         /\ IF frameName \notin DOMAIN frames
            THEN /\ Raise("KeyError: frames")
                 /\ UNCHANGED <<frames, heap, callers, last_call_depth>>
            ELSE /\ last_call_depth' = lineDepth(line)
                 /\ IF isRootCaller(lineDepth(line))
                    THEN /\ heap' = Append(heap, Callee(line, frameName))
                         /\ frames' = [frames EXCEPT
                                ![frameName].callTree.calls =
                                    appendCall(@, Len(heap) + 1)]
                         /\ callers' = recordCaller(callers, lineDepth(line),
                                                    Len(heap) + 1)
                         /\ UNCHANGED <<pc, exc>>
                    ELSE IF callerDepth(lineDepth(line)) \notin DOMAIN callers
                    THEN /\ Raise("KeyError: callers")
                         /\ UNCHANGED <<frames, heap, callers>>
                    ELSE /\ heap' = Append(
                                [heap EXCEPT
                                    ![callers[callerDepth(lineDepth(line))]].calls =
                                        appendCall(@, Len(heap) + 1)],
                                Callee(line, frameName))
                         /\ callers' = recordCaller(callers, lineDepth(line),
                                                    Len(heap) + 1)
                         /\ UNCHANGED <<frames, pc, exc>>
    ELSE UNCHANGED <<call_count, frames, heap, callers, last_call_depth, pc, exc>>

----------------------------------------------------------------------------
(* The callgrind writer *)

Out(tag, name, addr, line, value) ==
    [tag |-> tag, name |-> name, addr |-> addr, line |-> line, value |-> value]

RECURSIVE Flatten(_)
Flatten(ss) == IF ss = <<>> THEN <<>> ELSE Head(ss) \o Flatten(Tail(ss))

writeCallgrindHeader(totalTicks) ==
    << Out("positions", "line", "", 0, 0),
       Out("events", "ticks", "", 0, 0),
       Out("summary", "", "", 0, totalTicks),
       Out("blank", "", "", 0, 0) >>

RECURSIVE subtractCalls(_, _)
subtractCalls(cost, calls) ==
    IF calls = <<>> THEN cost
    ELSE subtractCalls(cost - heap[Head(calls)].ticks, Tail(calls))

(* The inclusive cost written as the self cost *)
selfCost_inclusive(callTree) == callTree.ticks

selfCost(callTree) == subtractCalls(callTree.ticks, callTree.calls)

calleeRecord(callee, line) ==
    << Out("cfl", callee.name, callee.addr, 0, 0),
       Out("cfn", callee.name, callee.addr, 0, 0),
       Out("calls", "", "", 0, 1),
       Out("cost", "", "", line, callee.ticks) >>

(* The line counter started at 1 *)
calleeLine_fromOne(i) == i

calleeLine(i) == i + 1

calleeOrder(calls) == calls

(* dumpCallTree without the final loop over the callees *)
dumpCallTree_noRecurse(callTree) ==
    << Out("fl", callTree.name, callTree.addr, 0, 0),
       Out("fn", callTree.name, callTree.addr, 0, 0),
       Out("cost", "", "", 1, selfCost(callTree)) >>
    \o Flatten([i \in 1..Len(callTree.calls) |->
                  calleeRecord(heap[calleeOrder(callTree.calls)[i]], calleeLine(i))])
    \o << Out("blank", "", "", 0, 0) >>

RECURSIVE dumpCallTree(_)
dumpCallTree(callTree) ==
    << Out("fl", callTree.name, callTree.addr, 0, 0),
       Out("fn", callTree.name, callTree.addr, 0, 0),
       Out("cost", "", "", 1, selfCost(callTree)) >>
    \o Flatten([i \in 1..Len(callTree.calls) |->
                  calleeRecord(heap[calleeOrder(callTree.calls)[i]], calleeLine(i))])
    \o << Out("blank", "", "", 0, 0) >>
    \o Flatten([i \in 1..Len(callTree.calls) |->
                  dumpCallTree(heap[calleeOrder(callTree.calls)[i]])])

createCallgrindReport(frame) ==
    writeCallgrindHeader(frame.totalTicks) \o dumpCallTree(frame.callTree)

fileName(name) == ReportName \o "_" \o name \o ".callgrind"

(* The writer loop skipping the frames without call samples *)
reportFrames_skipEmpty(keys) ==
    LET sampled(k) == frames[k].callTree.calls # <<>> IN SelectSeq(keys, sampled)

reportFrames(keys) == keys

writeReports ==
    [i \in 1..Len(reportFrames(frame_keys)) |->
        [name  |-> fileName(reportFrames(frame_keys)[i]),
         lines |-> createCallgrindReport(frames[reportFrames(frame_keys)[i]])]]

----------------------------------------------------------------------------
(* parseReport: one iteration of the loop over the lines, by state *)

(* The loop with a fifth state entered when a frame is complete *)
successor_frameDone(from) ==
    CASE from = "FindHeader"  -> "ParseHeader"
      [] from = "ParseHeader" -> "FindFrame"
      [] from = "FindFrame"   -> "ParseFrame"
      [] from = "ParseFrame"  -> "FrameDone"
      [] OTHER                -> from

(* The state each branch of the loop assigns when its marker is found *)
successor(from) ==
    CASE from = "FindHeader"  -> "ParseHeader"
      [] from = "ParseHeader" -> "FindFrame"
      [] from = "FindFrame"   -> "ParseFrame"
      [] from = "ParseFrame"  -> "FindFrame"

(* `for line in file`: the length of the report is left open (any line   *)
(* may be the last one), or the report has a known number of lines left.  *)
OpenEnded == 0 - 1

moreLines(left) == left # 0

endOfFile(left) == left = OpenEnded \/ left = 0

(* The loop handing the same line to the next iteration again *)
consumeLine_reread(left) == left

(* Each iteration takes the next line of the file *)
consumeLine(left) == IF left = OpenEnded THEN left ELSE left - 1

registerFrame(frame) ==
    /\ frames' = [l \in DOMAIN frames \cup {frame.name} |->
                    IF l = frame.name THEN frame ELSE frames[l]]
    /\ frame_keys' = IF frame.name \in DOMAIN frames
                     THEN frame_keys ELSE Append(frame_keys, frame.name)

(* The FindFrame branch registering the label of a block as a frame *)
FindFrame_registers(line) ==
    /\ pc = "parsing"
    /\ UNCHANGED <<gvars, tvars>>
    /\ moreLines(lines_left)
    /\ lines_left' = consumeLine(lines_left)
    /\ state = "FindFrame"
    /\ current_frame' = frameStarted(line)
    /\ IF frameStarted(line) # None
       THEN /\ state' = successor(state)
            /\ blocks' = blocks \cup {frameStarted(line)}
            /\ block_start' = Len(heap)
            /\ registerFrame(Frame(frameStarted(line), 0, 0))
       ELSE UNCHANGED <<state, blocks, block_start, frames, frame_keys>>
    /\ UNCHANGED <<pc, exc, heap, callers, call_count, last_call_depth, files>>

FindFrame(line) ==
    /\ pc = "parsing"
    /\ UNCHANGED <<gvars, tvars>>
    /\ moreLines(lines_left)
    /\ lines_left' = consumeLine(lines_left)
    /\ state = "FindFrame"
    /\ current_frame' = frameStarted(line)
    /\ IF frameStarted(line) # None
       THEN /\ state' = successor(state)
            /\ blocks' = blocks \cup {frameStarted(line)}
            /\ block_start' = Len(heap)
       ELSE UNCHANGED <<state, blocks, block_start>>
    /\ UNCHANGED <<pc, exc, frames, frame_keys, heap, callers, call_count,
                   last_call_depth, files>>

ParseFrame(line) ==
    /\ pc = "parsing"
    /\ UNCHANGED <<gvars, tvars>>
    /\ moreLines(lines_left)
    /\ lines_left' = consumeLine(lines_left)
    /\ state = "ParseFrame"
    /\ frameCallLineMatch(line) => Len(heap) < MaxNodes
    /\ IF frameEnded(line)
       THEN /\ state' = successor(state)
            /\ UNCHANGED <<pc, exc, frames, heap, callers, call_count,
                           last_call_depth>>
       ELSE /\ parseFrame(current_frame, line)
            /\ UNCHANGED state
    /\ UNCHANGED <<current_frame, frame_keys, files, blocks, block_start>>

FindHeader(line) ==
    /\ pc = "parsing"
    /\ UNCHANGED <<gvars, tvars>>
    /\ moreLines(lines_left)
    /\ lines_left' = consumeLine(lines_left)
    /\ state = "FindHeader"
    /\ state' = IF headerStarted(line) THEN successor(state) ELSE state
    /\ UNCHANGED <<current_frame, pc, exc, frames, frame_keys, heap, callers,
                   call_count, last_call_depth, files, blocks, block_start>>

ParseHeader(line) ==
    /\ pc = "parsing"
    /\ UNCHANGED <<gvars, tvars>>
    /\ moreLines(lines_left)
    /\ lines_left' = consumeLine(lines_left)
    /\ state = "ParseHeader"
    /\ IF headerFrameLineMatch(line)
       THEN registerFrame(parseHeader(line))
       ELSE UNCHANGED <<frames, frame_keys>>
    /\ state' = IF originMarker(line) THEN successor(state) ELSE state
    /\ UNCHANGED <<current_frame, pc, exc, heap, callers, call_count,
                   last_call_depth, files, blocks, block_start>>

(* End of input: the loop ends in whichever state is current and the      *)
(* writer creates one callgrind file per entry of the frame registry.     *)
EndOfInput ==
    /\ pc = "parsing"
    /\ UNCHANGED <<gvars, tvars>>
    /\ endOfFile(lines_left)
    /\ UNCHANGED lines_left
    /\ pc' = "done"
    /\ files' = writeReports
    /\ UNCHANGED <<state, current_frame, exc, frames, frame_keys, heap, callers,
                   call_count, last_call_depth, blocks, block_start>>

ReadLine(line) ==
    \/ FindFrame(line)
    \/ ParseFrame(line)
    \/ FindHeader(line)
    \/ ParseHeader(line)

(* The script before the first line is read: ParsingState() and the      *)
(* locals of parseReport                                                  *)
NewParsingState ==
    /\ state = "FindHeader"
    /\ current_frame = None
    /\ pc = "parsing"
    /\ exc = "none"
    /\ frames = Empty
    /\ frame_keys = <<>>
    /\ heap = <<>>
    /\ callers = Empty
    /\ call_count = Empty
    /\ last_call_depth = 0
    /\ files = <<>>
    /\ blocks = {}
    /\ block_start = 0

(* No debugger session: tasks.py loaded, no command given *)
NoGdbSession ==
    /\ regs = [t \in Threads |-> "0x10"]
    /\ selected = 1
    /\ original_state = Empty
    /\ before_switch = regs
    /\ switched = 0

(* hermit_test_runner.py not started *)
Running == 0 - 1

NoTestRun ==
    /\ test_runner = "UhyveTestRunner"
    /\ test_name = "hermit"
    /\ at = "start"
    /\ rc = <<>>
    /\ stdout = <<>>
    /\ timed_out = FALSE
    /\ test_ok = FALSE
    /\ exit_status = Running

Init ==
    /\ NewParsingState
    /\ lines_left = OpenEnded
    /\ NoGdbSession
    /\ NoTestRun

Next ==
    \/ \E line \in Lines : FindFrame(line)
    \/ \E line \in Lines : ParseFrame(line)
    \/ \E line \in Lines : FindHeader(line)
    \/ \E line \in Lines : ParseHeader(line)
    \/ EndOfInput

Spec == Init /\ [][Next]_vars

(* A report of a known, finite number of lines; the interpreter keeps     *)
(* running the single thread of the script until it exits.                *)
InitFinite ==
    /\ NewParsingState
    /\ lines_left \in 0..MaxLines
    /\ NoGdbSession
    /\ NoTestRun

SpecFinite == InitFinite /\ [][Next]_vars /\ WF_vars(Next)

----------------------------------------------------------------------------
(* tasks.py: hermit-switch-context and hermit-restore-context *)

(* HermitTaskState(): the registers of the selected thread, as read from   *)
(* `info registers`                                                        *)
HermitTaskState(thread) == regs[thread]

(* saveCurrentState: every thread not yet in `st` gets its registers saved *)
saveCurrentState(st) ==
    [t \in DOMAIN st \cup Threads |->
        IF t \in DOMAIN st THEN st[t] ELSE HermitTaskState(t)]

(* restoreCurrentState: the registers after every thread found in `st`     *)
(* had its saved registers set                                             *)
restoreCurrentState(st) ==
    [t \in Threads |-> IF t \in DOMAIN st THEN st[t] ELSE regs[t]]

(* restoreCurrentState ends with `state = {}`, which binds the local name  *)
(* only: the dictionary passed in keeps its entries                        *)
stateAfterRestore(st) == st

(* The thread hermit-switch-context selects: the one of the task's core *)
threadOfCore(core) ==
    IF \E t \in Threads : t - 1 = core
    THEN CHOOSE t \in Threads : t - 1 = core
    ELSE selected

(* The inferior runs: a thread's registers change *)
Resume(t, v) ==
    /\ regs' = [regs EXCEPT ![t] = v]
    /\ UNCHANGED <<selected, original_state, before_switch, switched>>
    /\ UNCHANGED <<pvars, tvars>>

(* hermit-switch-context ID, for a task last run on `core` whose saved     *)
(* registers on its stack are `v`                                          *)
HermitSwitchContext(core, v) ==
    /\ original_state' = saveCurrentState(original_state)
    /\ selected' = threadOfCore(core)
    /\ regs' = [regs EXCEPT ![threadOfCore(core)] = v]
    /\ before_switch' = regs
    /\ switched' = IF switched = 0 THEN 1 ELSE 2
    /\ UNCHANGED <<pvars, tvars>>

HermitRestoreContext ==
    /\ regs' = restoreCurrentState(original_state)
    /\ original_state' = stateAfterRestore(original_state)
    /\ switched' = 0
    /\ UNCHANGED <<selected, before_switch>>
    /\ UNCHANGED <<pvars, tvars>>

InitGdb ==
    /\ NewParsingState
    /\ lines_left = OpenEnded
    /\ NoTestRun
    /\ regs \in [Threads -> RegValues]
    /\ selected \in Threads
    /\ original_state = Empty
    /\ before_switch = regs
    /\ switched = 0

NextGdb ==
    \/ \E t \in Threads, v \in RegValues : Resume(t, v)
    \/ \E core \in {t - 1 : t \in Threads}, v \in RegValues :
            HermitSwitchContext(core, v)
    \/ HermitRestoreContext

SpecGdb == InitGdb /\ [][NextGdb]_vars

----------------------------------------------------------------------------
(* tests/hermit_test_runner.py: one run of the script for one test         *)
(* executable; one step is one statement of the script's main part.        *)

Runners == {"QemuTestRunner", "UhyveTestRunner"}
TestNames == {"hermit", "basic_print"}
ReturnCodes == {0, 1, 33, 35}
PanicMarker == "!!!PANIC!!!"
OutputLines == {"hello", "PANIC", PanicMarker}

(* What the test process may have printed: up to MaxOut lines *)
Outputs == UNION { [1..n -> OutputLines] : n \in 0..MaxOut }

(* validate_stdout accepting every output *)
validate_stdout_ignored(out) == TRUE

(* `"!!!PANIC!!!" in stdout`, the output taken line by line *)
validate_stdout(out) == ~(\E i \in DOMAIN out : out[i] = PanicMarker)

TestRunner_validate_test_success(out) == validate_stdout(out)

QemuTestRunner_validate_test_success(code, out) ==
    IF code = 1 THEN FALSE
    ELSE IF code # 33 THEN FALSE
    ELSE TestRunner_validate_test_success(out)

UhyveTestRunner_validate_test_success(code, out) ==
    IF code # 0 THEN FALSE
    ELSE TestRunner_validate_test_success(out)

(* `assert rc != 0` of the QEMU runner *)
assertionFails(runner, code) == runner = "QemuTestRunner" /\ code = 0

(* test_name == "hermit": the unit tests are skipped, exit(0) *)
SkipUnittests ==
    /\ at = "start"
    /\ test_name = "hermit"
    /\ at' = "exited"
    /\ exit_status' = 0
    /\ UNCHANGED <<test_runner, test_name, rc, stdout, timed_out, test_ok>>
    /\ UNCHANGED <<pvars, gvars>>

(* run_test(): the test process ends with `code` having printed `out`, or *)
(* subprocess.run raises TimeoutExpired with the output captured so far    *)
run_test(code, out, expired) ==
    /\ at = "start"
    /\ test_name # "hermit"
    /\ rc' = IF expired THEN <<>> ELSE <<code>>
    /\ stdout' = out
    /\ timed_out' = expired
    /\ at' = "ran"
    /\ UNCHANGED <<test_runner, test_name, test_ok, exit_status>>
    /\ UNCHANGED <<pvars, gvars>>

(* `if timed_out: ... exit(1)` *)
TimedOut ==
    /\ at = "ran"
    /\ timed_out
    /\ at' = "exited"
    /\ exit_status' = 1
    /\ UNCHANGED <<test_runner, test_name, rc, stdout, timed_out, test_ok>>
    /\ UNCHANGED <<pvars, gvars>>

(* test_ok = test_runner.validate_test_success(...); an AssertionError is  *)
(* not caught and ends the script with status 1                            *)
Validate ==
    /\ at = "ran"
    /\ ~timed_out
    /\ IF assertionFails(test_runner, rc[1])
       THEN /\ at' = "exited"
            /\ exit_status' = 1
            /\ UNCHANGED test_ok
       ELSE /\ at' = "validated"
            /\ test_ok' = IF test_runner = "QemuTestRunner"
                          THEN QemuTestRunner_validate_test_success(rc[1], stdout)
                          ELSE UhyveTestRunner_validate_test_success(rc[1], stdout)
            /\ UNCHANGED exit_status
    /\ UNCHANGED <<test_runner, test_name, rc, stdout, timed_out>>
    /\ UNCHANGED <<pvars, gvars>>

(* `if test_ok: ... exit(0) else: ... exit(1)` *)
Report ==
    /\ at = "validated"
    /\ at' = "exited"
    /\ exit_status' = IF test_ok THEN 0 ELSE 1
    /\ UNCHANGED <<test_runner, test_name, rc, stdout, timed_out, test_ok>>
    /\ UNCHANGED <<pvars, gvars>>

InitRunner ==
    /\ NewParsingState
    /\ lines_left = OpenEnded
    /\ NoGdbSession
    /\ test_runner \in Runners
    /\ test_name \in TestNames
    /\ at = "start"
    /\ rc = <<>>
    /\ stdout = <<>>
    /\ timed_out = FALSE
    /\ test_ok = FALSE
    /\ exit_status = Running

NextRunner ==
    \/ SkipUnittests
    \/ \E code \in ReturnCodes, out \in Outputs, expired \in BOOLEAN :
            run_test(code, out, expired)
    \/ TimedOut
    \/ Validate
    \/ Report

SpecRunner == InitRunner /\ [][NextRunner]_vars

TypeOK ==
    /\ state \in {"FindFrame", "ParseFrame", "FindHeader", "ParseHeader"}
    /\ pc \in {"parsing", "crashed", "done"}
    /\ Len(heap) <= MaxNodes

----------------------------------------------------------------------------
(* Reading the trees and the written files, for the properties below *)

Nodes == 1..Len(heap)

RECURSIVE PreOrder(_)
PreOrder(calls) ==
    IF calls = <<>> THEN <<>>
    ELSE <<Head(calls)>> \o PreOrder(heap[Head(calls)].calls) \o PreOrder(Tail(calls))

Range(sq) == { sq[i] : i \in DOMAIN sq }

Descendants(label) == Range(PreOrder(frames[label].callTree.calls))

RECURSIVE SumTicks(_)
SumTicks(S) ==
    IF S = {} THEN 0
    ELSE LET n == CHOOSE m \in S : TRUE IN heap[n].ticks + SumTicks(S \ {n})

FileIndexes(label) ==
    { i \in DOMAIN files : files[i].name = "report_" \o label \o ".callgrind" }

FileLines(label) == files[CHOOSE i \in FileIndexes(label) : TRUE].lines

(* Position of the k-th defining entity (fn= line) of a file, and the      *)
(* number of the entity a line belongs to.                                 *)
FnPositions(out) == { i \in DOMAIN out : out[i].tag = "fn" }

EntityNo(out, i) == Cardinality({ j \in FnPositions(out) : j <= i })

EntityCount(out) == Cardinality(FnPositions(out))

FnPosition(out, k) == CHOOSE i \in FnPositions(out) : EntityNo(out, i) = k

EntitySelfCost(out, k) == out[FnPosition(out, k) + 1]

RECURSIVE CalledFrom(_, _)
CalledFrom(out, i) ==
    IF i > Len(out) \/ out[i].tag = "blank" THEN <<>>
    ELSE IF out[i].tag = "cfn"
    THEN << <<out[i].name, out[i].addr, out[i + 1].tag, out[i + 1].value,
              out[i + 1].line, out[i + 2].line, out[i + 2].value,
              out[i + 2].tag>> >>
         \o CalledFrom(out, i + 1)
    ELSE CalledFrom(out, i + 1)

(* The called-entity records of the k-th entity, in file order *)
EntityCalled(out, k) == CalledFrom(out, FnPosition(out, k))

(* The tree node the k-th entity of frame `label`'s file is written for *)
EntityNode(label, k) ==
    IF k = 1 THEN frames[label].callTree
    ELSE heap[PreOrder(frames[label].callTree.calls)[k - 1]]

----------------------------------------------------------------------------
(* C1: every self cost written on synthetic line 1 of a defining entity    *)
(* is >= 0, whatever the ticks of the input.                               *)
C1_SelfCostNonNegative ==
    \A i \in DOMAIN files : \A j \in DOMAIN files[i].lines :
        (files[i].lines[j].tag = "cost" /\ files[i].lines[j].line = 1)
            => files[i].lines[j].value >= 0

(* Depth of the previous call sample of the current frame block, -1 when   *)
(* the block has no sample yet.                                            *)
PrevDepthInBlock ==
    IF Len(heap) > block_start THEN heap[Len(heap)].depth ELSE -1

(* C2: a call-sample line whose depth exceeds the depth of the previous    *)
(* sample of the block by more than one (or a first sample at depth >= 1)  *)
(* does not crash the parser.                                              *)
C2_DepthJumpDoesNotCrash ==
    [][\A l \in SampleLines :
          ( /\ state = "ParseFrame"
            /\ current_frame \in DOMAIN frames
            /\ l.indent > PrevDepthInBlock + 1
            /\ ParseFrame(l) )
          => pc' = "parsing"]_vars

(* C3: in a block whose label is not registered no line is fatal: every    *)
(* line leaves the run alive, creates no node and adds no frame.           *)
C3_UnknownLabelDropped ==
    [][\A l \in Lines :
          ( /\ state = "ParseFrame"
            /\ current_frame \notin DOMAIN frames
            /\ ParseFrame(l) )
          => ( /\ pc' = "parsing"
               /\ heap' = heap
               /\ frames' = frames
               /\ frame_keys' = frame_keys )]_vars

(* C4: the depth-to-node mapping used inside a block holds only nodes of   *)
(* that block, and every node made from a sample of frame F's block is a   *)
(* descendant of F's own root.                                             *)
C4_NoCrossFrameLeakage ==
    /\ state = "ParseFrame" => \A d \in DOMAIN callers : callers[d] > block_start
    /\ \A n \in Nodes : n \in Descendants(heap[n].frame)

(* C5: once the run has reached the end of the input, exactly one file     *)
(* <report-base>_<label>.callgrind has been written for each registered    *)
(* label (also those without samples) and no other file; before that no    *)
(* file is written.                                                        *)
C5_OneFilePerFrame ==
    /\ pc # "done" => files = <<>>
    /\ pc = "done" =>
        /\ \A l \in DOMAIN frames : Cardinality(FileIndexes(l)) = 1
        /\ \A i \in DOMAIN files : \E l \in DOMAIN frames : i \in FileIndexes(l)

C5_Witness ==
    /\ pc = "done"
    /\ Len(files) = 2
    /\ \E l \in DOMAIN frames : l \in blocks /\ frames[l].callTree.calls = <<>>
    /\ \E l \in DOMAIN frames : frames[l].callTree.calls # <<>>

AllCalls ==
    { frames[l].callTree.calls : l \in DOMAIN frames } \cup
    { heap[n].calls : n \in Nodes }

(* C6: every children list is in the order of the call-sample lines of the *)
(* report (nodes are numbered in that order), and the writer emits the     *)
(* called-entity records of a node, and afterwards the children's defining *)
(* blocks, in the order of that list.                                      *)
C6_ChildOrderPreserved ==
    /\ \A calls \in AllCalls : \A i, j \in DOMAIN calls :
            i < j => calls[i] < calls[j]
    /\ pc = "done" => \A l \in DOMAIN frames :
        LET out == FileLines(l)
            pre == PreOrder(frames[l].callTree.calls)
        IN /\ EntityCount(out) = Len(pre) + 1
           /\ \A k \in 1..EntityCount(out) :
                LET node == EntityNode(l, k)
                    called == EntityCalled(out, k)
                IN /\ out[FnPosition(out, k)].name = node.name
                   /\ out[FnPosition(out, k)].addr = node.addr
                   /\ Len(called) = Len(node.calls)
                   /\ \A i \in DOMAIN called :
                        /\ called[i][1] = heap[node.calls[i]].name
                        /\ called[i][2] = heap[node.calls[i]].addr
                        /\ called[i][7] = heap[node.calls[i]].ticks
           /\ \A k1, k2 \in 2..EntityCount(out) :
                (\E n \in Nodes \cup {0} : \E i, j \in 1..MaxNodes :
                    /\ i < j
                    /\ LET calls == IF n = 0 THEN frames[l].callTree.calls
                                    ELSE heap[n].calls
                       IN /\ j <= Len(calls)
                          /\ pre[k1 - 1] = calls[i]
                          /\ pre[k2 - 1] = calls[j])
                => k1 < k2

C6_Witness ==
    /\ pc = "done"
    /\ \E calls \in AllCalls :
        /\ Len(calls) >= 2
        /\ heap[calls[1]].name # heap[calls[2]].name

(* C7: a registered frame for which ParseFrame was never entered gets a    *)
(* file whose only defining entity is _root_ at 0x0, without called        *)
(* entities, and whose self cost is the frame's total ticks.               *)
C7_FrameWithoutBlock ==
    pc = "done" => \A l \in DOMAIN frames \ blocks :
        LET out == FileLines(l)
        IN /\ EntityCount(out) = 1
           /\ out[FnPosition(out, 1)].name = "_root_"
           /\ out[FnPosition(out, 1)].addr = "0x0"
           /\ \A i \in DOMAIN out : out[i].tag \notin {"cfn", "cfl", "calls"}
           /\ EntitySelfCost(out, 1).tag = "cost"
           /\ EntitySelfCost(out, 1).line = 1
           /\ EntitySelfCost(out, 1).value = frames[l].totalTicks

C7_Witness ==
    /\ pc = "done"
    /\ heap # <<>>
    /\ DOMAIN frames \ blocks # {}

(* C8: for a frame whose blocks hold only depth-0 samples with ticks       *)
(* t1..tn, sum <= T, the file gives the root the self cost T - sum and     *)
(* each sample i the self cost ti.                                         *)
C8_DepthZeroSelfCosts ==
    pc = "done" => \A l \in DOMAIN frames :
        LET mine == { n \in Nodes : heap[n].frame = l }
            out == FileLines(l)
            pre == PreOrder(frames[l].callTree.calls)
        IN ( /\ \A n \in mine : heap[n].depth = 0
             /\ SumTicks(mine) <= frames[l].totalTicks )
           => /\ EntitySelfCost(out, 1).value = frames[l].totalTicks - SumTicks(mine)
              /\ \A k \in DOMAIN pre :
                    pre[k] \in mine =>
                        EntitySelfCost(out, k + 1).value = heap[pre[k]].ticks

Trigger(from, l) ==
    CASE from = "FindHeader"  -> l.kind = "HeaderStart"
      [] from = "ParseHeader" -> l.kind = "Origin"
      [] from = "FindFrame"   -> l.kind = "FrameStart"
      [] from = "ParseFrame"  -> l.kind = "FrameEnd"

Target(from) ==
    CASE from = "FindHeader"  -> "ParseHeader"
      [] from = "ParseHeader" -> "FindFrame"
      [] from = "FindFrame"   -> "ParseFrame"
      [] from = "ParseFrame"  -> "FindFrame"

(* C9: the control state starts in FindHeader; a line changes it exactly   *)
(* when it is the line the current state awaits, and then to the one       *)
(* successor of that state; so ParseFrame is entered only from FindFrame   *)
(* and FindHeader and ParseHeader are never re-entered.                    *)
C9_ControlStateTransitions ==
    /\ state = "FindHeader"
    /\ [][ /\ \A l \in Lines : ReadLine(l) =>
                state' = IF Trigger(state, l) THEN Target(state) ELSE state
           /\ state' # state => \E l \in Lines : ReadLine(l)
           /\ state' \in {"FindHeader", "ParseHeader"} =>
                state \in {"FindHeader", state'} ]_vars

C9_Witness ==
    /\ state = "FindFrame"
    /\ blocks # {}
    /\ heap # <<>>

(* C10: a call-sample line of depth d in ParseFrame appends exactly one    *)
(* node (name, address, ticks of the line) as the last child of the        *)
(* current frame's root when d = 0, otherwise of the node most recently    *)
(* recorded at depth d-1 in the current block, and sets the mapping entry  *)
(* of depth d to the new node, leaving the other entries unchanged.        *)
C10_SampleAttachedToScopedParent ==
    [][\A l \in SampleLines :
          (state = "ParseFrame" /\ ParseFrame(l)) =>
            LET d == l.indent
                id == Len(heap) + 1
                scoped == { n \in Nodes : n > block_start /\ heap[n].depth = d - 1 }
                parent == CHOOSE n \in scoped : \A m \in scoped : m <= n
            IN /\ Len(heap') = id
               /\ heap'[id].name = l.name
               /\ heap'[id].addr = l.addr
               /\ heap'[id].ticks = l.ticks
               /\ heap'[id].calls = <<>>
               /\ IF d = 0
                  THEN /\ current_frame \in DOMAIN frames
                       /\ frames'[current_frame].callTree.calls =
                            Append(frames[current_frame].callTree.calls, id)
                       /\ \A n \in Nodes : heap'[n] = heap[n]
                  ELSE /\ scoped # {}
                       /\ heap'[parent].calls = Append(heap[parent].calls, id)
                       /\ \A n \in Nodes \ {parent} : heap'[n] = heap[n]
                       /\ frames' = frames
               /\ DOMAIN callers' = DOMAIN callers \cup {d}
               /\ callers'[d] = id
               /\ \A e \in DOMAIN callers \ {d} : callers'[e] = callers[e]]_vars

Inconsistent ==
    \/ \E l \in DOMAIN frames :
            SumTicks(Range(frames[l].callTree.calls)) > frames[l].callTree.ticks
    \/ \E n \in Nodes : SumTicks(Range(heap[n].calls)) > heap[n].ticks

(* C11: a run in which some node's children's ticks exceed the node's      *)
(* ticks is never aborted; it reaches the end of the input and then the    *)
(* file of every registered frame is written.                              *)
C11_CostInconsistencyNeverAborts ==
    Inconsistent =>
        /\ pc # "crashed"
        /\ pc = "done" => \A l \in DOMAIN frames : FileIndexes(l) # {}

(* C13: the control state is always one of the four states of the enum,    *)
(* so the branch for an unknown state is never taken.                      *)
C13_KnownState ==
    state \in {"FindHeader", "ParseHeader", "FindFrame", "ParseFrame"}

C13_Witness ==
    /\ pc = "done"
    /\ state = "ParseFrame"
    /\ Len(heap) = 2
    /\ Cardinality(blocks) = 2

(* A line the current state neither awaits nor parses *)
Unrecognized(st, l) ==
    CASE st = "FindHeader"  -> l.kind # "HeaderStart"
      [] st = "ParseHeader" -> l.kind \notin {"HeaderFrame", "Origin"}
      [] st = "FindFrame"   -> l.kind # "FrameStart"
      [] st = "ParseFrame"  -> l.kind \notin {"Sample", "FrameEnd"}

(* C15 as stated: an unrecognized line leaves the control state, the       *)
(* current frame, the registry, every call tree and the depth-to-node      *)
(* mapping unchanged, in each of the four states.                          *)
C15_UnrecognizedLineNoEffect ==
    [][\A l \in Lines :
          (Unrecognized(state, l) /\ ReadLine(l)) =>
            /\ state' = state
            /\ current_frame' = current_frame
            /\ frames' = frames
            /\ heap' = heap
            /\ callers' = callers]_vars

(* C15 amended: an unrecognized line leaves the control state, the         *)
(* registry, every call tree and the depth-to-node mapping unchanged; the  *)
(* current frame is unchanged in FindHeader, ParseHeader and ParseFrame    *)
(* and becomes None in FindFrame.                                          *)
C15_UnrecognizedLineResetsFrameOnly ==
    [][\A l \in Lines :
          (Unrecognized(state, l) /\ ReadLine(l)) =>
            /\ state' = state
            /\ current_frame' = IF state = "FindFrame" THEN "<None>"
                                ELSE current_frame
            /\ frames' = frames
            /\ frame_keys' = frame_keys
            /\ heap' = heap
            /\ callers' = callers
            /\ pc' = pc]_vars

C15_Witness ==
    /\ state = "FindFrame"
    /\ current_frame = "<None>"
    /\ blocks # {}
    /\ heap # <<>>

SummaryLines(out) == { i \in DOMAIN out : out[i].tag = "summary" }

(* C16: a header-descriptor line read in ParseHeader registers under its   *)
(* label a frame whose root is _root_ at 0x0, without children and with    *)
(* the descriptor's ticks; no later line changes a frame's total ticks or  *)
(* its root's ticks, the two are always equal, and the summary: value of   *)
(* the frame's file is the same number.                                    *)
C16_RootTicksAreTotalTicks ==
    /\ [](\A l \in DOMAIN frames :
            /\ frames[l].callTree.name = "_root_"
            /\ frames[l].callTree.addr = "0x0"
            /\ frames[l].callTree.ticks = frames[l].totalTicks
            /\ pc = "done" =>
                /\ Cardinality(SummaryLines(FileLines(l))) = 1
                /\ \A i \in SummaryLines(FileLines(l)) :
                        FileLines(l)[i].value = frames[l].totalTicks)
    /\ [][ /\ \A l \in HeaderFrameLines :
                (state = "ParseHeader" /\ ReadLine(l)) =>
                    /\ l.label \in DOMAIN frames'
                    /\ frames'[l.label].totalTicks = l.ticks
                    /\ frames'[l.label].callTree.ticks = l.ticks
                    /\ frames'[l.label].callTree.calls = <<>>
           /\ \A f \in DOMAIN frames :
                state # "ParseHeader" =>
                    /\ f \in DOMAIN frames'
                    /\ frames'[f].totalTicks = frames[f].totalTicks
                    /\ frames'[f].callTree.ticks = frames[f].callTree.ticks ]_vars

C16_Witness ==
    /\ pc = "done"
    /\ \E l \in DOMAIN frames :
        /\ frames[l].totalTicks = 20
        /\ Len(frames[l].callTree.calls) = 2

IsPrefix(a, b) == Len(a) <= Len(b) /\ \A i \in DOMAIN a : a[i] = b[i]

(* C17: the number of nodes grows by exactly one with each call-sample     *)
(* line that ParseFrame processes without failing and by nothing else; an  *)
(* existing node keeps its name, address and ticks, and a children list    *)
(* changes only by growing at its end.                                     *)
C17_NodesOnlyAdded ==
    [][ /\ Len(heap') = Len(heap) +
                (IF \E l \in SampleLines :
                        state = "ParseFrame" /\ pc' = "parsing" /\ ReadLine(l)
                 THEN 1 ELSE 0)
        /\ \A n \in Nodes :
            /\ heap'[n].name = heap[n].name
            /\ heap'[n].addr = heap[n].addr
            /\ heap'[n].ticks = heap[n].ticks
            /\ IsPrefix(heap[n].calls, heap'[n].calls)
        /\ \A f \in DOMAIN frames :
            /\ f \in DOMAIN frames'
            /\ IsPrefix(frames[f].callTree.calls, frames'[f].callTree.calls) ]_vars

C17_Witness ==
    /\ Len(heap) = 2
    /\ heap[1].calls = <<2>>
    /\ pc = "parsing"

(* Where node n occurs in a children list of a root, and of a node:       *)
(* owner and position                                                      *)
RootOccurrences(n) ==
    { x \in ((DOMAIN frames) \X (1..(2 * Len(heap)))) :
            /\ x[2] \in DOMAIN frames[x[1]].callTree.calls
            /\ frames[x[1]].callTree.calls[x[2]] = n }

NodeOccurrences(n) ==
    { x \in (Nodes \X (1..(2 * Len(heap)))) :
            /\ x[2] \in DOMAIN heap[x[1]].calls
            /\ heap[x[1]].calls[x[2]] = n }

RECURSIVE Below(_, _)
Below(S, k) ==
    IF k = 0 THEN S
    ELSE Below(S \cup UNION { Range(heap[m].calls) \cap Nodes : m \in S }, k - 1)

(* C18: every node made by a call sample is in exactly one children list,  *)
(* exactly once; children lists hold only such nodes (never a root); and   *)
(* no node is below itself.                                                *)
C18_TreesFormAForest ==
    /\ \A n \in Nodes :
            Cardinality(RootOccurrences(n)) + Cardinality(NodeOccurrences(n)) = 1
    /\ \A f \in DOMAIN frames : Range(frames[f].callTree.calls) \subseteq Nodes
    /\ \A n \in Nodes : Range(heap[n].calls) \subseteq Nodes
    /\ \A n \in Nodes : n \notin Below(Range(heap[n].calls) \cap Nodes, Len(heap))

C18_Witness ==
    /\ Len(heap) = 2
    /\ \A f \in {"F", "G"} : f \in DOMAIN frames /\ Len(frames[f].callTree.calls) = 1

(* C19: in every defining block the self cost is on line 1 and the i-th    *)
(* called entity has the annotation calls=1 0 followed by its ticks on     *)
(* line i + 1, the numbering starting again at 2 in every block.           *)
C19_SyntheticLineNumbers ==
    pc = "done" => \A f \in DOMAIN frames :
        LET out == FileLines(f)
        IN \A k \in 1..EntityCount(out) :
            /\ EntitySelfCost(out, k).tag = "cost"
            /\ EntitySelfCost(out, k).line = 1
            /\ \A i \in DOMAIN EntityCalled(out, k) :
                LET c == EntityCalled(out, k)[i]
                IN /\ c[3] = "calls"
                   /\ c[4] = 1
                   /\ c[5] = 0
                   /\ c[8] = "cost"
                   /\ c[6] = i + 1

C19_Witness ==
    /\ pc = "done"
    /\ \E f \in DOMAIN frames :
        /\ Len(EntityCalled(FileLines(f), 1)) = 2
        /\ EntityCalled(FileLines(f), 1)[2][6] = 3

(* The number of the entity written for the parent of the k-th entity *)
ParentEntity(f, k) ==
    CHOOSE p \in 1..(Len(heap) + 1) :
        /\ p <= Len(PreOrder(frames[f].callTree.calls)) + 1
        /\ PreOrder(frames[f].callTree.calls)[k - 1]
                \in Range(EntityNode(f, p).calls)

C14_RestoreToBeforeLastSwitch ==
    [][(switched = 1 /\ HermitRestoreContext) => regs' = before_switch]_vars

----------------------------------------------------------------------------
(* C21: a run on a report of finitely many lines terminates: every step    *)
(* of the loop consumes exactly one line (none is read twice, none ahead), *)
(* the end of the input ends the parse from each of the four states and    *)
(* the writer then produces the file of every frame, so the run ends       *)
(* (with the files written, or with the uncaught exception of C2/C3).      *)
C21_RunTerminates ==
    /\ [][IF pc' = "done"
          THEN lines_left = 0 /\ lines_left' = 0
          ELSE lines_left > 0 /\ lines_left' = lines_left - 1]_vars
    /\ \A st \in {"FindHeader", "ParseHeader", "FindFrame", "ParseFrame"} :
          (pc = "parsing" /\ lines_left = 0 /\ state = st)
              ~> (pc = "done" /\ state = st /\ Len(files) = Len(frame_keys))
    /\ <>(pc = "crashed" \/ (pc = "done" /\ lines_left = 0))

C21_Witness ==
    /\ pc = "done"
    /\ lines_left = 0
    /\ state = "ParseFrame"
    /\ heap # <<>>
    /\ \E i \in DOMAIN files : Len(files[i].lines) > 8

----------------------------------------------------------------------------
(* The test process was started / ended as a passing test does *)
TestWasRun == timed_out \/ rc # <<>>

TestPassed ==
    /\ ~timed_out
    /\ rc = IF test_runner = "QemuTestRunner" THEN <<33>> ELSE <<0>>
    /\ \A i \in DOMAIN stdout : stdout[i] # "!!!PANIC!!!"

(* C22: once the test was run, the script exits with status 0 only if the  *)
(* test process did not time out, returned the expected code (33 under     *)
(* QEMU, 0 under uhyve) and printed no panic marker; a timeout, any other  *)
(* return code or a panic marker make it exit with status 1.               *)
C22_SuccessOnlyIfTestPassed ==
    (at = "exited" /\ TestWasRun)
        => /\ exit_status \in {0, 1}
           /\ exit_status = 0 <=> TestPassed

C22_Witness ==
    /\ at = "exited"
    /\ test_runner = "QemuTestRunner"
    /\ rc = <<33>>
    /\ stdout = <<"hello", "PANIC">>
    /\ exit_status = 0

----------------------------------------------------------------------------
(* The sum of the values written on synthetic line 1 (the self costs of    *)
(* the defining entities) from position i of a file on                     *)
RECURSIVE SumSelfCosts(_, _)
SumSelfCosts(out, i) ==
    IF i > Len(out) THEN 0
    ELSE (IF out[i].tag = "cost" /\ out[i].line = 1 THEN out[i].value ELSE 0)
         + SumSelfCosts(out, i + 1)

(* C23: in every file written, the self costs of all defining entities     *)
(* sum to the ticks of the frame's root, which is the value of the file's  *)
(* `summary:` line, whatever the ticks of the input.                       *)
C23_CostConservation ==
    files # <<>> =>
        \A f \in DOMAIN frames :
            /\ SumSelfCosts(FileLines(f), 1) = frames[f].callTree.ticks
            /\ \A j \in SummaryLines(FileLines(f)) :
                    SumSelfCosts(FileLines(f), 1) = FileLines(f)[j].value

C23_Witness ==
    /\ pc = "done"
    /\ \E f \in DOMAIN frames :
          /\ FileIndexes(f) # {}
          /\ EntityCount(FileLines(f)) = 3
          /\ \E j \in DOMAIN FileLines(f) :
                /\ FileLines(f)[j].tag = "cost"
                /\ FileLines(f)[j].line = 1
                /\ FileLines(f)[j].value < 0

----------------------------------------------------------------------------
(* C24: once the header section is left (FindFrame or ParseFrame) no step  *)
(* adds, removes or replaces an entry of the frame registry or changes a   *)
(* frame's total ticks; in the header section a descriptor whose label is  *)
(* registered already replaces that frame by a fresh one with the new      *)
(* ticks, and the registry keeps one entry per label.                      *)
C24_RegistryFixedAfterHeader ==
    [][ /\ state \in {"FindFrame", "ParseFrame"}
            => /\ DOMAIN frames' = DOMAIN frames
               /\ frame_keys' = frame_keys
               /\ \A f \in DOMAIN frames :
                     /\ frames'[f].name = frames[f].name
                     /\ frames'[f].totalTicks = frames[f].totalTicks
                     /\ frames'[f].captureSize = frames[f].captureSize
                     /\ frames'[f].callTree.ticks = frames[f].callTree.ticks
        /\ \A l \in Lines :
              ( /\ state = "ParseHeader"
                /\ l.kind = "HeaderFrame"
                /\ l.label \in DOMAIN frames
                /\ ParseHeader(l) )
              => /\ frames'[l.label].totalTicks = l.ticks
                 /\ frames'[l.label].callTree.ticks = l.ticks
                 /\ frames'[l.label].callTree.calls = <<>>
                 /\ DOMAIN frames' = DOMAIN frames
                 /\ frame_keys' = frame_keys
        /\ Len(frame_keys') = Cardinality(DOMAIN frames')
        /\ \A f \in DOMAIN frames' : \E i \in DOMAIN frame_keys' :
              frame_keys'[i] = f
      ]_vars

C24_Witness ==
    /\ state = "FindFrame"
    /\ frame_keys = <<"G", "F">>
    /\ frames["F"].totalTicks # frames["G"].totalTicks
    /\ blocks = {"F", "G"}
    /\ Len(frames["G"].callTree.calls) = 2

----------------------------------------------------------------------------
(* The number of edges from node n up to the root of the tree it hangs in *)
(* (0 for a node that hangs nowhere)                                       *)
RECURSIVE RootDistance(_)
RootDistance(n) ==
    IF \E f \in DOMAIN frames : n \in Range(frames[f].callTree.calls)
    THEN 1
    ELSE IF \E m \in Nodes : n \in Range(heap[m].calls)
    THEN 1 + RootDistance(CHOOSE m \in Nodes : n \in Range(heap[m].calls))
    ELSE 0

(* C25: the node the depth-to-node mapping holds for depth d is d+1 edges  *)
(* below a frame root, and so is every node made from a call sample of     *)
(* indentation d, whatever the order of the depths in the input.           *)
C25_TreeDepthIsIndentation ==
    /\ \A d \in DOMAIN callers : RootDistance(callers[d]) = d + 1
    /\ \A n \in Nodes : RootDistance(n) = heap[n].depth + 1

C25_Witness ==
    /\ Len(heap) = 2
    /\ DOMAIN callers = {0, 1}
    /\ callers[1] = 2
    /\ heap[2].frame # heap[1].frame
    /\ heap[1].calls = <<2>>

----------------------------------------------------------------------------
(* C26: inside a block (ParseFrame) no line changes the current frame, a   *)
(* `label` line included, and every call sample read there becomes a node  *)
(* of the tree of the frame that was current when the block was entered.   *)
C26_SamplesStayInCurrentFrame ==
    [][\A l \in Lines :
          ( /\ state = "ParseFrame"
            /\ ParseFrame(l)
            /\ pc' = "parsing" )
          => /\ current_frame' = current_frame
             /\ l.kind = "FrameStart" => (state' = state /\ heap' = heap)
             /\ l.kind = "Sample"
                  => /\ Len(heap') = Len(heap) + 1
                     /\ Len(heap') \in Descendants(current_frame)'
      ]_vars

====
